---- MODULE Spec2Model ----
(***************************************************************************)
(* Model of the fixed-size thread pool of src/src/lib.rs: one caller       *)
(* thread that owns the ThreadPool and calls new / new_with_debug,         *)
(* execute, join and drop, and N worker threads that share the receiving   *)
(* end of an mpsc channel behind a mutex.                                  *)
(*                                                                         *)
(* A panic of the caller inside execute or join unwinds the caller's       *)
(* stack, which runs Drop for the pool it owns; a panic inside drop while  *)
(* already unwinding aborts the process.  The sender is dropped only after *)
(* drop(), at which point every worker still alive has a Terminate queued  *)
(* ahead of the disconnection, so recv() never returns Err and the mutex   *)
(* is never poisoned; those two unwrap()s of line 106 cannot fail.         *)
(***************************************************************************)
EXTENDS Integers, Sequences, FiniteSets, TLC

\* ---- bounds of the model ------------------------------------------------
MaxSize == 3      \* largest size passed to new / new_with_debug
MaxJobs == 2      \* largest number of jobs handed to the channel by execute

NoWorker == -1    \* "the mutex is free"

VARIABLES
  mainPc,      \* position of the caller thread
  panicMsg,    \* message of the caller's latest panic, "none" if none
  reqSize,     \* the size argument given to the constructor
  workers,     \* ThreadPool.workers : index -> [id, thread]
  debug,       \* ThreadPool.debug
  is_running,  \* ThreadPool.is_running
  idx,         \* position of the running for-loop of join / drop
  joining,     \* the caller holds the taken handle of workers[idx] and waits
  fromJoin,    \* history: a worker had already faulted when join() was called
  queue,       \* messages in the channel, head first
  lockHolder,  \* worker holding the Mutex<Receiver>, or NoWorker
  tstate,      \* per worker thread: "lock", "recv", "run", "exited", "faulted"
  wjob,        \* per worker thread: the job it dequeued last (0: none yet)
  completed,   \* jobs whose call job() returned
  sentLog,     \* history: messages accepted by the channel, in send order
  recvLog      \* history: messages dequeued, in dequeue order, with the worker

vars == <<mainPc, panicMsg, reqSize, workers, debug, is_running, idx, joining,
          fromJoin, queue, lockHolder, tstate, wjob, completed, sentLog,
          recvLog>>

poolVars == <<workers, debug, is_running>>
threadVars == <<lockHolder, tstate, wjob, completed, recvLog>>
chanVars == <<queue, sentLog>>

\* ---- Message -------------------------------------------------------------
NewJob(j) == [type |-> "NewJob", job |-> j]
Terminate == [type |-> "Terminate", job |-> 0]

\* ---- helpers -------------------------------------------------------------
Ids == DOMAIN workers
NumWorkers == Cardinality(Ids)

\* a thread that has returned or unwound has dropped its closure
Ended(w) == tstate[w] \in {"exited", "faulted"}

\* the Receiver lives as long as one worker closure holds the Arc
ReceiverKeptByPool == TRUE
ReceiverAlive == \E w \in Ids : ~Ended(w)

JobsSent == Cardinality({i \in DOMAIN sentLog : sentLog[i].type = "NewJob"})
TerminatesSent == Cardinality({i \in DOMAIN sentLog : sentLog[i].type = "Terminate"})

\* mpsc::Sender::send on a live channel: append at the tail
EnqueueFront(q, m) == <<m>> \o q
Enqueue(q, m) == Append(q, m)

\* mpsc::Receiver::recv on a non-empty channel: take the oldest message
RecvPeek(q) == [msg |-> Head(q), rest |-> q]
RecvLast(q) == [msg |-> q[Len(q)], rest |-> SubSeq(q, 1, Len(q) - 1)]
Recv(q) == [msg |-> Head(q), rest |-> Tail(q)]

\* where a panic of the caller leads: out of execute/join the stack unwinds
\* and the pool is dropped; out of drop the thread ends, or the process
\* aborts when the drop was itself part of an unwinding
PanicPc ==
  IF mainPc \in {"drop_send", "drop_wait"}
    THEN IF panicMsg # "none" THEN "aborted" ELSE "failed"
    ELSE "unwind"

Init ==
  /\ mainPc = "start"
  /\ panicMsg = "none"
  /\ reqSize = 0
  /\ workers = << >>
  /\ debug = FALSE
  /\ is_running = FALSE
  /\ idx = 0
  /\ joining = FALSE
  /\ fromJoin = FALSE
  /\ queue = << >>
  /\ lockHolder = NoWorker
  /\ tstate = << >>
  /\ wjob = << >>
  /\ completed = {}
  /\ sentLog = << >>
  /\ recvLog = << >>

\* ---- ThreadPool::new / new_with_debug ------------------------------------
SizeAssertionOff(size) == TRUE
SizeAssertion(size) == size > 0

WorkerNew(id) == [id |-> id, thread |-> "Some"]

Construct(size, dbg) ==
  /\ mainPc = "start"
  /\ reqSize' = size
  /\ IF SizeAssertion(size)
       THEN /\ workers' = [id \in 0..(size - 1) |-> WorkerNew(id)]
            /\ tstate' = [id \in 0..(size - 1) |-> "lock"]
            /\ wjob' = [id \in 0..(size - 1) |-> 0]
            /\ debug' = dbg
            /\ is_running' = TRUE
            /\ mainPc' = "idle"
            /\ UNCHANGED panicMsg
       ELSE /\ mainPc' = "failed"
            /\ panicMsg' = "assert_size"
            /\ UNCHANGED <<workers, tstate, wjob, debug, is_running>>
  /\ UNCHANGED <<idx, joining, fromJoin, queue, lockHolder, completed,
                 sentLog, recvLog>>

New == \E size \in 0..MaxSize : Construct(size, FALSE)
NewWithDebug == \E size \in 0..MaxSize : Construct(size, TRUE)

\* ---- ThreadPool::execute -------------------------------------------------
\* mpsc::channel() is the asynchronous, unbounded channel: send never waits
ChannelBounded(q) == Len(q) < 1
ChannelHasRoom(q) == TRUE

ExecuteGuardOff == FALSE
ExecuteGuardFails == ~is_running

ExecuteShutDown ==
  /\ mainPc = "idle"
  /\ ExecuteGuardFails
  /\ mainPc' = PanicPc
  /\ panicMsg' = "shut_down"
  /\ UNCHANGED <<reqSize, fromJoin, joining, poolVars, idx, chanVars, threadVars>>

ExecuteOk ==
  /\ mainPc = "idle"
  /\ ~ExecuteGuardFails
  /\ ReceiverAlive
  /\ JobsSent < MaxJobs
  /\ ChannelHasRoom(queue)
  /\ queue' = Enqueue(queue, NewJob(JobsSent + 1))
  /\ sentLog' = Append(sentLog, NewJob(JobsSent + 1))
  /\ UNCHANGED <<mainPc, panicMsg, reqSize, fromJoin, joining, poolVars, idx, threadVars>>

ExecuteSendFail ==
  /\ mainPc = "idle"
  /\ ~ExecuteGuardFails
  /\ ~ReceiverAlive
  /\ mainPc' = PanicPc
  /\ panicMsg' = "send_error"
  /\ UNCHANGED <<reqSize, fromJoin, joining, poolVars, idx, chanVars, threadVars>>

Execute == ExecuteShutDown \/ ExecuteOk \/ ExecuteSendFail

\* one Terminate per element of self.workers
OneTerminateTooMany == NumWorkers + 1
TerminatesToSend == NumWorkers

\* ---- the two loops shared in shape by join and drop ----------------------
\* for _ in &self.workers { self.sender.send(Message::Terminate).unwrap(); }
SendLoop(next) ==
  IF idx < TerminatesToSend
    THEN IF ReceiverAlive
           THEN /\ ChannelHasRoom(queue)
                /\ queue' = Enqueue(queue, Terminate)
                /\ sentLog' = Append(sentLog, Terminate)
                /\ idx' = idx + 1
                /\ UNCHANGED <<mainPc, panicMsg>>
           ELSE /\ mainPc' = PanicPc
                /\ panicMsg' = "send_error"
                /\ UNCHANGED <<idx, queue, sentLog>>
    ELSE /\ mainPc' = next
         /\ idx' = 0
         /\ UNCHANGED <<panicMsg, queue, sentLog>>

\* JoinHandle::join returns once the thread has ended
JoinNoWait(w) == TRUE
JoinReady(w) == Ended(w)

\* thread.join() is Err when the thread ended by a panic
JoinResultIgnored(w) == FALSE
JoinResultErr(w) == tstate[w] = "faulted"

\* Option::take leaves None in the worker
HandleLeftInPlace == "Some"
HandleAfterTake == "None"

\* if let Some(thread) = worker.thread.take() { thread.join().unwrap(); }
\* first the take, then the wait inside thread.join() and its unwrap
TakeAndJoin ==
  /\ idx < NumWorkers
  /\ IF ~joining
       THEN /\ workers' = [workers EXCEPT ![idx].thread = HandleAfterTake]
            /\ joining' = (workers[idx].thread = "Some")
            /\ idx' = IF workers[idx].thread = "Some" THEN idx ELSE idx + 1
            /\ UNCHANGED <<mainPc, panicMsg>>
       ELSE /\ JoinReady(idx)
            /\ joining' = FALSE
            /\ UNCHANGED workers
            /\ IF JoinResultErr(idx)
                 THEN /\ mainPc' = PanicPc
                      /\ panicMsg' = "join_error"
                      /\ UNCHANGED idx
                 ELSE /\ idx' = idx + 1
                      /\ UNCHANGED <<mainPc, panicMsg>>

\* ---- ThreadPool::join ----------------------------------------------------
JoinCall ==
  /\ mainPc = "idle"
  /\ mainPc' = "join_send"
  /\ idx' = 0
  /\ fromJoin' = \E w \in Ids : tstate[w] = "faulted"
  /\ UNCHANGED <<panicMsg, reqSize, joining, poolVars, chanVars, threadVars>>

JoinSend ==
  /\ mainPc = "join_send"
  /\ SendLoop("join_wait")
  /\ UNCHANGED <<reqSize, fromJoin, joining, poolVars, threadVars>>

JoinWait ==
  /\ mainPc = "join_wait"
  /\ TakeAndJoin
  /\ UNCHANGED <<reqSize, fromJoin, debug, is_running, chanVars, threadVars>>

JoinReturn ==
  /\ mainPc = "join_wait"
  /\ idx = NumWorkers
  /\ is_running' = FALSE
  /\ mainPc' = "idle"
  /\ idx' = 0
  /\ UNCHANGED <<panicMsg, reqSize, fromJoin, joining, workers, debug, chanVars, threadVars>>

\* ---- Drop for ThreadPool -------------------------------------------------
DropGuardOff == FALSE
DropAlreadyShutDown == ~is_running

DropCall ==
  /\ mainPc \in {"idle", "unwind"}
  /\ mainPc' = IF DropAlreadyShutDown THEN "done" ELSE "drop_send"
  /\ idx' = 0
  /\ UNCHANGED <<panicMsg, reqSize, fromJoin, joining, poolVars, chanVars, threadVars>>

DropSend ==
  /\ mainPc = "drop_send"
  /\ SendLoop("drop_wait")
  /\ UNCHANGED <<reqSize, fromJoin, joining, poolVars, threadVars>>

DropWait ==
  /\ mainPc = "drop_wait"
  /\ TakeAndJoin
  /\ UNCHANGED <<reqSize, fromJoin, debug, is_running, chanVars, threadVars>>

DropReturn ==
  /\ mainPc = "drop_wait"
  /\ idx = NumWorkers
  /\ mainPc' = "done"
  /\ idx' = 0
  /\ UNCHANGED <<panicMsg, reqSize, fromJoin, joining, poolVars, chanVars, threadVars>>

\* ---- Worker thread -------------------------------------------------------
ProcessAlive == mainPc # "aborted"

MutexAlwaysFree == TRUE
MutexFree == lockHolder = NoWorker

\* the MutexGuard is a temporary of the let statement: dropped once recv()
\* has returned, before the match
HolderKept(w) == w
HolderAfterRecv(w) == NoWorker

\* Message::Terminate => break: the closure returns and the thread ends
OnTerminateContinue == "lock"
OnTerminate == "exited"

\* a panic inside job() is not caught: the thread unwinds and ends
FaultRecovers == "lock"
FaultState == "faulted"

\* receiver.lock().unwrap()
WLock(w) ==
  /\ ProcessAlive
  /\ tstate[w] = "lock"
  /\ MutexFree
  /\ lockHolder' = w
  /\ tstate' = [tstate EXCEPT ![w] = "recv"]
  /\ UNCHANGED <<mainPc, panicMsg, reqSize, fromJoin, joining, poolVars, idx, chanVars, wjob,
                 completed, recvLog>>

\* .recv().unwrap(), then the match on the message
WRecv(w) ==
  /\ ProcessAlive
  /\ tstate[w] = "recv"
  /\ queue # << >>
  /\ LET message == Recv(queue).msg IN
       /\ queue' = Recv(queue).rest
       /\ recvLog' = Append(recvLog, [msg |-> message, by |-> w])
       /\ lockHolder' = IF lockHolder = w THEN HolderAfterRecv(w) ELSE lockHolder
       /\ IF message.type = "NewJob"
            THEN /\ tstate' = [tstate EXCEPT ![w] = "run"]
                 /\ wjob' = [wjob EXCEPT ![w] = message.job]
            ELSE /\ tstate' = [tstate EXCEPT ![w] = OnTerminate]
                 /\ UNCHANGED wjob
  /\ UNCHANGED <<mainPc, panicMsg, reqSize, fromJoin, joining, poolVars, idx, sentLog, completed>>

\* job() returns
WFinish(w) ==
  /\ ProcessAlive
  /\ tstate[w] = "run"
  /\ completed' = completed \cup {wjob[w]}
  /\ tstate' = [tstate EXCEPT ![w] = "lock"]
  /\ UNCHANGED <<mainPc, panicMsg, reqSize, fromJoin, joining, poolVars, idx, chanVars,
                 lockHolder, wjob, recvLog>>

\* job() panics: the thread unwinds and ends
WFault(w) ==
  /\ ProcessAlive
  /\ tstate[w] = "run"
  /\ tstate' = [tstate EXCEPT ![w] = FaultState]
  /\ UNCHANGED <<mainPc, panicMsg, reqSize, fromJoin, joining, poolVars, idx, chanVars,
                 lockHolder, wjob, completed, recvLog>>

WorkerLock == \E w \in Ids : WLock(w)
WorkerRecv == \E w \in Ids : WRecv(w)
WorkerFinish == \E w \in Ids : WFinish(w)
WorkerFault == \E w \in Ids : WFault(w)

Next ==
  \/ New \/ NewWithDebug
  \/ Execute
  \/ JoinCall \/ JoinSend \/ JoinWait \/ JoinReturn
  \/ DropCall \/ DropSend \/ DropWait \/ DropReturn
  \/ WorkerLock \/ WorkerRecv \/ WorkerFinish \/ WorkerFault

Spec == Init /\ [][Next]_vars

\* every thread that can take a step eventually does; a job always ends
\* (WFinish and WFault stay enabled together, one of them happens)
FairSpec ==
  /\ Spec
  /\ \A w \in 0..(MaxSize - 1) :
       /\ WF_vars(w \in Ids /\ WRecv(w))
       /\ WF_vars(w \in Ids /\ (WFinish(w) \/ WFault(w)))
  /\ WF_vars(\E w \in Ids : WLock(w))
  /\ WF_vars(JoinSend \/ JoinWait \/ JoinReturn)
  /\ WF_vars(DropSend \/ DropWait \/ DropReturn)

TypeOK ==
  /\ mainPc \in {"start", "idle", "join_send", "join_wait", "drop_send",
                 "drop_wait", "unwind", "done", "failed", "aborted"}
  /\ panicMsg \in {"none", "assert_size", "shut_down", "send_error", "join_error"}
  /\ reqSize \in 0..MaxSize
  /\ is_running \in BOOLEAN /\ debug \in BOOLEAN
  /\ idx \in 0..MaxSize
  /\ joining \in BOOLEAN /\ fromJoin \in BOOLEAN
  /\ lockHolder \in Ids \cup {NoWorker}
  /\ \A w \in Ids : workers[w].thread \in {"Some", "None"}
  /\ completed \subseteq 1..MaxJobs
\* ---- vocabulary of the properties ----------------------------------------
Constructed == mainPc # "start" /\ panicMsg # "assert_size"
JoinReturned == Constructed /\ ~is_running
DropReturned == mainPc = "done"
NoFault == \A w \in Ids : tstate[w] # "faulted"
AllJobs == {sentLog[i].job : i \in {n \in DOMAIN sentLog : sentLog[n].type = "NewJob"}}
Queued(j) == \E i \in DOMAIN queue : queue[i] = NewJob(j)
Dequeued(j) == \E i \in DOMAIN recvLog : recvLog[i].msg = NewJob(j)
TerminatesTaken(w) ==
  Cardinality({i \in DOMAIN recvLog :
                 recvLog[i].by = w /\ recvLog[i].msg = Terminate})

\* C1: drain-before-terminate.  When no job faulted and a shutdown (join or
\* drop) has returned, every job accepted by the channel has run to
\* completion and no NewJob message is left in the queue.
C1_DrainBeforeTerminate ==
  (NoFault /\ (JoinReturned \/ DropReturned)) =>
     /\ AllJobs \subseteq completed
     /\ \A i \in DOMAIN queue : queue[i].type # "NewJob"

C1_Witness ==
  /\ NoFault /\ JoinReturned /\ mainPc = "idle"
  /\ JobsSent >= 2 /\ AllJobs \subseteq completed

\* C2: a call of execute on a pool whose join() has returned panics with the
\* "ThreadPool shutted down" message and hands nothing to the channel.
C2_ExecuteAfterJoinPanics ==
  [][(Execute /\ JoinReturned) =>
       /\ panicMsg' = "shut_down"
       /\ mainPc' = "unwind"
       /\ queue' = queue
       /\ sentLog' = sentLog]_vars

C2_Witness ==
  /\ JoinReturned /\ mainPc = "unwind" /\ panicMsg = "shut_down"
  /\ JobsSent >= 1 /\ queue = << >>

\* C3: a second join(), begun after the first join() returned, does not
\* panic and sends no further Terminate.
C3_SecondJoinIsNoop ==
  [][(JoinReturned /\ mainPc \in {"join_send", "join_wait"}) =>
       /\ mainPc' \in {"join_send", "join_wait", "idle"}
       /\ panicMsg' = panicMsg
       /\ sentLog' = sentLog]_vars

\* C4: drop of a pool whose join() has returned goes straight to its return:
\* no Terminate is sent, no handle is taken, nothing panics.
C4_DropAfterJoinIsNoop ==
  [][(DropCall /\ JoinReturned) =>
       /\ mainPc' = "done"
       /\ sentLog' = sentLog
       /\ workers' = workers
       /\ panicMsg' = panicMsg]_vars

C4_Witness ==
  /\ JoinReturned /\ mainPc = "done" /\ panicMsg = "none"
  /\ NumWorkers >= 2 /\ TerminatesSent = NumWorkers

\* C5: at most N Terminates are ever sent, no worker takes two, a thread
\* exits its loop only by taking one, and once the pool has been dropped
\* exactly N were sent and none is left in the queue.
C5_ExactlyNTerminates ==
  /\ TerminatesSent <= NumWorkers
  /\ \A w \in Ids : TerminatesTaken(w) <= 1
  /\ \A w \in Ids : tstate[w] = "exited" <=> TerminatesTaken(w) = 1
  /\ (Constructed /\ mainPc = "done") =>
       /\ TerminatesSent = NumWorkers
       /\ \A i \in DOMAIN queue : queue[i] # Terminate

\* C6: when join() has returned, or drop() has returned, no worker thread is
\* still running.
C6_NoWorkerRunsAfterShutdown ==
  (JoinReturned \/ DropReturned) => \A w \in Ids : Ended(w)

C6_Witness ==
  /\ DropReturned /\ is_running /\ panicMsg = "none"
  /\ NumWorkers >= 2 /\ \A w \in Ids : tstate[w] = "exited"

\* C7 as stated: new(0) yields a running pool with at least one worker.
C7_NewZeroIsNotAnError ==
  (mainPc # "start" /\ reqSize = 0) =>
     /\ panicMsg = "none"
     /\ NumWorkers >= 1

\* C7 as amended: new(0) and new_with_debug(0) panic on the size assertion
\* and build no pool; for size > 0 the pool has exactly size workers with
\* ids 0..size-1.
C7_NewSize ==
  mainPc # "start" =>
    IF reqSize = 0
      THEN /\ mainPc = "failed"
           /\ panicMsg = "assert_size"
           /\ Ids = {}
           /\ sentLog = << >>
      ELSE /\ Ids = 0..(reqSize - 1)
           /\ \A i \in Ids : workers[i].id = i
           /\ panicMsg # "assert_size"

C7_Witness == mainPc = "failed" /\ reqSize = 0 /\ panicMsg = "assert_size"

\* C8: at most one worker is inside recv(), and a worker inside recv() holds
\* the mutex.
C8_OneWorkerDequeues ==
  /\ Cardinality({w \in Ids : tstate[w] = "recv"}) <= 1
  /\ \A w \in Ids : tstate[w] = "recv" => lockHolder = w

C8_Witness ==
  \E w, v \in Ids :
    /\ w # v /\ tstate[w] = "recv" /\ tstate[v] = "lock"
    /\ lockHolder = w /\ queue # << >>

\* C9: the messages dequeued so far, by all workers together, are the first
\* messages sent, in the order they were sent.
C9_AggregateFifo ==
  /\ Len(recvLog) <= Len(sentLog)
  /\ \A i \in DOMAIN recvLog : recvLog[i].msg = sentLog[i]

C9_Witness ==
  /\ Len(recvLog) >= 3
  /\ recvLog[1].msg = NewJob(1) /\ recvLog[2].msg = NewJob(2)
  /\ recvLog[1].by # recvLog[2].by
  /\ recvLog[3].msg = Terminate

\* C10: every NewJob message in the queue is eventually dequeued.
C10_EveryJobDequeued ==
  \A j \in 1..MaxJobs : Queued(j) ~> Dequeued(j)
\* C11 as stated: a handle that is None, once the join on it is over, belongs
\* to a thread that was joined successfully, that is, one that ended normally.
C11_NoneOnlyAfterSuccessfulJoin ==
  \A w \in Ids :
    (workers[w].thread = "None" /\ ~(joining /\ idx = w)) => tstate[w] = "exited"

\* C11 as amended: a handle never goes back from None to Some; it goes from
\* Some to None only by the take() of the join loop of join() or drop() on
\* that worker's turn, before the wait for the thread; the loop leaves None
\* behind it and steps over a handle that is already None; and once the wait
\* is over the thread has ended, by Terminate or by a job fault.
C11_HandleTakenOnce ==
  /\ [](\A w \in Ids :
          /\ (mainPc \in {"join_wait", "drop_wait"} /\ w < idx) =>
                workers[w].thread = "None"
          /\ (workers[w].thread = "None" /\ ~(joining /\ idx = w)) => Ended(w))
  /\ [][\A w \in Ids :
          /\ workers[w].thread = "None" => workers'[w].thread = "None"
          /\ (workers[w].thread = "Some" /\ workers'[w].thread = "None") =>
               /\ mainPc \in {"join_wait", "drop_wait"}
               /\ idx = w /\ joining' /\ idx' = idx
          /\ (mainPc \in {"join_wait", "drop_wait"} /\ idx = w /\ ~joining
                /\ workers[w].thread = "None" /\ idx' # idx) =>
               /\ idx' = idx + 1 /\ mainPc' = mainPc
               /\ panicMsg' = panicMsg /\ ~joining']_vars

\* drop() steps over the None handle that a failed join() left behind
C11_Witness ==
  /\ mainPc = "drop_wait" /\ idx = 1 /\ ~joining
  /\ workers[0].thread = "None" /\ tstate[0] = "faulted"
  /\ panicMsg = "join_error"
  /\ workers[1].thread = "Some"
\* C12: every job is handed to at most one worker, at most once: no NewJob
\* message is dequeued twice, a job that was started or completed was
\* dequeued, and no two threads are running the same job.
C12_SingleInvocation ==
  /\ \A j \in 1..JobsSent :
       Cardinality({i \in DOMAIN recvLog : recvLog[i].msg = NewJob(j)}) <= 1
  /\ \A w \in Ids : wjob[w] # 0 => Dequeued(wjob[w])
  /\ \A j \in completed : Dequeued(j)
  /\ \A w, v \in Ids : (w # v /\ wjob[w] # 0) => wjob[w] # wjob[v]
  /\ \A w \in Ids : (tstate[w] = "run") => wjob[w] \notin completed

C12_Witness ==
  /\ completed = {1, 2}
  /\ \E w, v \in Ids : w # v /\ wjob[w] = 1 /\ wjob[v] = 2
  /\ NumWorkers = 3
\* C13: the mutex is held only by a worker that is inside recv(): never by a
\* worker that is running a job, nor by one that has ended or is still
\* waiting for the lock.
C13_NoLockAcrossJob ==
  \A w \in Ids : lockHolder = w => tstate[w] = "recv"

\* with two workers, one dequeued and runs a job while the other is still
\* running its own
C13_Witness ==
  \E w, v \in Ids :
    /\ w # v
    /\ tstate[w] = "run" /\ tstate[v] = "run"
    /\ wjob[w] = 1 /\ wjob[v] = 2
    /\ lockHolder = NoWorker

\* the job a thread dequeued and left without job() returning
JobFaulted(w) ==
  wjob[w] # 0 /\ wjob[w] \notin completed /\ tstate[w] # "run"

LiveWorkers == {w \in Ids : ~Ended(w)}
DequeuedBy(w) == {i \in DOMAIN recvLog : recvLog[i].by = w}

\* C14: a worker whose job faulted has ended, outside the mutex, and stays
\* ended: it dequeues nothing more; after construction the worker collection
\* is fixed and the set of live worker threads never gains a member; and a
\* queued job is still dequeued, under fair scheduling, as long as a worker
\* thread is left alive (and the process has not aborted).
C14_FaultEndsWorkerForGood ==
  /\ [](\A w \in Ids : JobFaulted(w) => (Ended(w) /\ lockHolder # w))
  /\ [][Constructed =>
          /\ DOMAIN workers' = DOMAIN workers
          /\ LiveWorkers' \subseteq LiveWorkers
          /\ \A w \in Ids : JobFaulted(w) =>
               /\ tstate'[w] = tstate[w]
               /\ wjob'[w] = wjob[w]
               /\ {i \in DOMAIN recvLog' : recvLog'[i].by = w} = DequeuedBy(w)]_vars
  /\ \A j \in 1..MaxJobs :
       Queued(j) ~> (Dequeued(j) \/ LiveWorkers = {} \/ ~ProcessAlive)

\* after worker w died in job 1, worker v dequeued job 2 and completed it
C14_Witness ==
  \E w, v \in Ids :
    /\ w # v
    /\ tstate[w] = "faulted" /\ wjob[w] = 1
    /\ wjob[v] = 2 /\ 2 \in completed
    /\ recvLog[1].by = w /\ recvLog[2].by = v
\* C15: when every worker thread has ended while is_running is still true,
\* execute panics on the failed send: it does not return normally and the
\* job is not put in the channel.
C15_SendFailureIsFatal ==
  [][(Execute /\ is_running /\ \A w \in Ids : Ended(w)) =>
       /\ panicMsg' = "send_error"
       /\ mainPc' = "unwind"
       /\ queue' = queue
       /\ sentLog' = sentLog]_vars

C15_Witness ==
  /\ mainPc = "unwind" /\ panicMsg = "send_error" /\ is_running
  /\ \A w \in Ids : tstate[w] = "faulted"
  /\ NumWorkers = 2 /\ JobsSent = 2

\* C16 as stated: every call of execute on a running pool appends one NewJob
\* at the tail of the queue and returns.
C16_ExecuteAlwaysAppends ==
  [][(Execute /\ is_running) =>
       /\ queue' = Append(queue, NewJob(JobsSent + 1))
       /\ mainPc' = "idle"]_vars

\* C16 as amended: on a running pool of which a worker thread is alive, execute is
\* enabled whatever the queue holds (up to the number of jobs the model
\* submits), and the call appends one NewJob at the tail of the queue and
\* changes nothing else of the pool or of the queue.
C16_ExecuteNeverBlocks ==
  /\ [](( /\ mainPc = "idle" /\ is_running /\ ReceiverAlive
          /\ JobsSent < MaxJobs) => ENABLED ExecuteOk)
  /\ [][(Execute /\ is_running /\ ReceiverAlive) =>
          /\ queue' = Append(queue, NewJob(JobsSent + 1))
          /\ is_running' = is_running
          /\ workers' = workers
          /\ mainPc' = "idle" /\ panicMsg' = "none"]_vars

\* a second job was appended behind a first one that is still queued
C16_Witness ==
  /\ mainPc = "idle" /\ is_running
  /\ queue = <<NewJob(1), NewJob(2)>>
\* C17: without a job fault, a first join() and a drop() without a prior
\* join() eventually return, under fair scheduling.
C17_ShutdownTerminates ==
  /\ (mainPc = "join_send" /\ is_running) ~>
        ((mainPc = "idle" /\ ~is_running) \/ ~NoFault)
  /\ (mainPc = "drop_send" /\ panicMsg = "none") ~>
        (mainPc = "done" \/ ~NoFault)

\* a join() that started with jobs still queued has returned
C17_Witness ==
  /\ mainPc = "idle" /\ JoinReturned /\ NoFault
  /\ NumWorkers = 3 /\ completed = {1, 2}
  /\ sentLog[3] = Terminate
\* C18: once the pool exists, is_running = false implies that every handle
\* is None, every worker thread has exited and the queue is empty; and
\* is_running never goes from false back to true.
C18_NotRunningMeansShutDown ==
  /\ [](JoinReturned =>
          /\ \A w \in Ids : workers[w].thread = "None" /\ tstate[w] = "exited"
          /\ queue = << >>)
  /\ [][JoinReturned => ~is_running']_vars

\* also after a second join() was attempted and the pool was dropped
C18_Witness ==
  /\ JoinReturned /\ mainPc = "done" /\ panicMsg = "send_error"
  /\ NumWorkers = 3 /\ JobsSent = 2
  /\ \A w \in Ids : workers[w].thread = "None"
InJoin == mainPc \in {"join_send", "join_wait"}

\* C19 as stated: a join() called after a worker died in a job always sends
\* its N Terminates and then fails at the handle of the faulted worker,
\* leaving is_running = true.
C19_JoinFailsAtFaultedHandle ==
  [][(fromJoin /\ InJoin /\ ~InJoin') =>
       /\ mainPc' = "unwind"
       /\ panicMsg' = "join_error"
       /\ TerminatesSent = NumWorkers
       /\ is_running']_vars

\* C19 as amended: such a join() never returns normally and leaves
\* is_running = true.  It panics either in its send loop, when every worker
\* thread has ended before the N Terminates were sent, with no handle taken;
\* or, after N Terminates, at the handle of the first faulted worker, with
\* the lower ids joined and the higher ids still Some.  The drop that follows
\* does not return early: it starts the Terminate broadcast again.
C19_JoinAfterFault ==
  /\ [](fromJoin => is_running)
  /\ [][(fromJoin /\ InJoin /\ ~InJoin') =>
          /\ mainPc' = "unwind"
          /\ is_running'
          /\ \/ /\ panicMsg' = "send_error"
                /\ mainPc = "join_send"
                /\ \A w \in Ids : Ended(w) /\ workers[w].thread = "Some"
                /\ TerminatesSent = idx /\ idx < NumWorkers
             \/ /\ panicMsg' = "join_error"
                /\ mainPc = "join_wait"
                /\ TerminatesSent = NumWorkers
                /\ tstate[idx] = "faulted" /\ workers'[idx].thread = "None"
                /\ \A w \in Ids : w < idx =>
                     (workers'[w].thread = "None" /\ tstate[w] = "exited")
                /\ \A w \in Ids : w > idx => workers'[w].thread = "Some"]_vars
  /\ [][(DropCall /\ fromJoin) => mainPc' = "drop_send"]_vars

\* the drop after the failed join has sent a Terminate of its own, with a
\* higher-id worker still unjoined
C19_Witness ==
  /\ fromJoin /\ mainPc = "drop_send" /\ panicMsg = "join_error"
  /\ NumWorkers = 2 /\ TerminatesSent = 3
  /\ tstate[0] = "faulted" /\ workers[0].thread = "None"
  /\ workers[1].thread = "Some"
====
